---- MODULE Spec2Model ----
(***************************************************************************)
(* Model of the quickjs-zig build orchestrator (build.mjs), its vendor     *)
(* patch stage, its platform tree resolver (processDirectory) and its      *)
(* per-target compilation loop.                                            *)
(*                                                                         *)
(* Text files are modelled as sequences of lines; a line is a pair         *)
(* <<kind, argument>> standing for one fixed line of text.                 *)
(***************************************************************************)
EXTENDS Integers, Sequences, FiniteSets, TLC

(***************************************************************************)
(* Bounds of the model.                                                    *)
(***************************************************************************)
MaxRuns == 2        \* build runs started one after the other
MaxFaults == 1      \* file-system / toolchain faults injected over all runs


(***************************************************************************)
(* Lines of the vendor sources and of the inserted text.                   *)
(***************************************************************************)
L(kind) == <<kind, "">>
IncLibcH    == L("#include \"quickjs-libc.h\"")
WorkerClass == L("static JSClassDef js_worker_class = {")
OldEntry    == L("    JS_CFUNC_DEF(\"exec\", 1, js_os_exec ),")
WinEntry    == L("    JS_CFUNC_DEF(\"exec\", 1, js_os_exec_win32 ),")
IfWin32     == L("#if defined(_WIN32)")
ElseLine    == L("#else")
EndifLine   == L("#endif")
IncProcessH == L("#include <process.h>")
BlankLine   == L("")
InitOs      == L("js_init_module_os(ctx, \"os\");")
NamelistOs  == L("namelist_add(&cmodule_list, \"os\", \"os\", 0);")
NoFile      == << L("<absent>") >>
ExecBody    == L("static JSValue js_os_exec(JSContext *ctx, ...) {...}")
Decl(name)  == <<"JSModuleDef *js_init_module_<name>(JSContext *ctx, const char *module_name);", name>>
Call(name)  == <<"js_init_module_<name>(ctx, \"<name>\");", name>>
Embed(name) == <<"namelist_add(&cmodule_list, \"<name>\", \"<name>\", 0);", name>>

\* src/exec.c: opens with #if defined(_WIN32), defines js_os_exec, ends with #endif
ExecImpl == <<IfWin32, ExecBody, EndifLine>>

\* the replacement table entry of the patch
NewEntry == <<IfWin32, WinEntry, ElseLine, OldEntry, EndifLine>>

\* the lines whose text contains the substring js_os_exec_win32
ExecMarkerLines == {WinEntry}

(***************************************************************************)
(* The patched library source as the C compiler reads it: the functions a  *)
(* line defines, the functions a table entry names, and the lines left by  *)
(* the #if defined(_WIN32) / #else / #endif directives of the inserted text *)
(* when _WIN32 is defined (win) and when it is not.                        *)
(***************************************************************************)
Defines(line) == IF line = ExecBody THEN {"build_envp", "js_os_exec"} ELSE {}

Names(line) == IF line = OldEntry THEN {"js_os_exec"}
               ELSE IF line = WinEntry THEN {"js_os_exec_win32"}
               ELSE {}

RECURSIVE ActiveFrom(_, _, _, _)
ActiveFrom(content, i, stack, win) ==
    IF i > Len(content) THEN <<>>
    ELSE LET line == content[i] IN
         IF line = IfWin32
         THEN ActiveFrom(content, i + 1, Append(stack, win), win)
         ELSE IF line = ElseLine /\ stack # <<>>
         THEN ActiveFrom(content, i + 1, [stack EXCEPT ![Len(stack)] = ~@], win)
         ELSE IF line = EndifLine /\ stack # <<>>
         THEN ActiveFrom(content, i + 1, SubSeq(stack, 1, Len(stack) - 1), win)
         ELSE (IF \A k \in 1..Len(stack) : stack[k] THEN <<line>> ELSE <<>>)
                  \o ActiveFrom(content, i + 1, stack, win)

ActiveLines(content, win) == ActiveFrom(content, 1, <<>>, win)

DefinedIn(lines) == UNION {Defines(lines[i]) : i \in 1..Len(lines)}
NamedIn(lines) == UNION {Names(lines[i]) : i \in 1..Len(lines)}

(***************************************************************************)
(* String.prototype.includes and String.prototype.replace(string, string)  *)
(* on a text made of lines: replace rewrites the first occurrence only.    *)
(***************************************************************************)
Includes(content, line) == \E i \in 1..Len(content) : content[i] = line

IncludesAny(content, lines) == \E i \in 1..Len(content) : content[i] \in lines

FirstIndex(content, line) == CHOOSE i \in 1..Len(content) :
    /\ content[i] = line
    /\ \A j \in 1..(i - 1) : content[j] # line

ReplaceFirst(content, line, repl) ==
    IF ~Includes(content, line) THEN content
    ELSE LET i == FirstIndex(content, line)
         IN SubSeq(content, 1, i - 1) \o repl \o SubSeq(content, i + 1, Len(content))

(***************************************************************************)
(* STAGE 0: the text transformation applied to quickjs-libc.c.             *)
(***************************************************************************)
AddProcessGuard(content) ==
    IF ~Includes(content, IncProcessH)
    THEN <<IfWin32, IncProcessH, EndifLine>> \o content
    ELSE content

AddDeclAtCall(content, name) ==
    IF ~Includes(content, Decl(name))
    THEN ReplaceFirst(content, InitOs, <<InitOs, BlankLine, Decl(name)>>)
    ELSE content

AddDecl(content, name) ==
    IF ~Includes(content, Decl(name))
    THEN ReplaceFirst(content, IncLibcH, <<IncLibcH, BlankLine, Decl(name)>>)
    ELSE content

RECURSIVE AddDecls(_, _)
AddDecls(content, names) ==
    IF names = <<>> THEN content
    ELSE AddDecls(AddDecl(content, Head(names)), Tail(names))

InsertExecImpl(content) ==
    IF ~IncludesAny(content, ExecMarkerLines)
    THEN ReplaceFirst(content, WorkerClass, ExecImpl \o <<WorkerClass>>)
    ELSE content

ReplaceExecEntry(content) ==
    IF Includes(content, OldEntry)
    THEN ReplaceFirst(content, OldEntry, NewEntry)
    ELSE content

PatchLibc(content, names, execSrcExists) ==
    LET c1 == AddProcessGuard(content)
        c2 == AddDecls(c1, names)
    IN IF execSrcExists THEN ReplaceExecEntry(InsertExecImpl(c2)) ELSE c2

(***************************************************************************)
(* STAGE 0: the text transformation applied to qjs.c and to qjsc.c.        *)
(***************************************************************************)
AddCall(content, name) ==
    IF ~Includes(content, Call(name))
    THEN ReplaceFirst(content, InitOs, <<InitOs, Call(name)>>)
    ELSE content

AddEmbed(content, name) ==
    IF ~Includes(content, Embed(name))
    THEN ReplaceFirst(content, NamelistOs, <<NamelistOs, Embed(name)>>)
    ELSE content

RECURSIVE PatchTool(_, _, _)
PatchTool(content, names, isQjsc) ==
    IF names = <<>> THEN content
    ELSE PatchTool(IF isQjsc THEN AddEmbed(content, Head(names))
                   ELSE AddCall(AddDecl(content, Head(names)), Head(names)),
                   Tail(names), isQjsc)

VendorFiles == <<"quickjs-libc.c", "qjs.c", "qjsc.c">>
VendorSet == {VendorFiles[i] : i \in 1..Len(VendorFiles)}

PatchedContent(f, content, names, execSrcExists) ==
    IF f = "quickjs-libc.c" THEN PatchLibc(content, names, execSrcExists)
    ELSE PatchTool(content, names, f = "qjsc.c")

\* the vendor sources as unpacked by the install step
Pristine == [f \in VendorSet |->
    CASE f = "quickjs-libc.c" -> <<IncLibcH, WorkerClass, OldEntry>>
      [] f = "qjs.c"          -> <<IncLibcH, InitOs>>
      [] f = "qjsc.c"         -> <<IncLibcH, NamelistOs>>]

(***************************************************************************)
(* The target registry and the host pre-compiler name.                     *)
(***************************************************************************)
Target(id, qjs, qjsc, app, plat) ==
    [id |-> id, qjs |-> qjs, qjsc |-> qjsc, app |-> app, plat |-> plat]

targets == <<
    Target("x86_64-windows-gnu", "qjs_win64.exe", "qjsc_win64.exe", "app_win64.exe", "win32"),
    Target("x86-windows-gnu", "qjs_win32.exe", "qjsc_win32.exe", "app_win32.exe", "win32"),
    Target("x86_64-linux-gnu", "qjs_linux64", "qjsc_linux64", "app_linux64", "linux"),
    Target("x86-linux-gnu", "qjs_linux32", "qjsc_linux32", "app_linux32", "linux"),
    Target("aarch64-linux-gnu", "qjs_linux_arm64", "qjsc_linux_arm64", "app_linux_arm64", "linux"),
    Target("aarch64-macos", "qjs_mac_arm", "qjsc_mac_arm", "app_mac_arm", "darwin"),
    Target("x86_64-macos", "qjs_mac_intel", "qjsc_mac_intel", "app_mac_intel", "darwin") >>

TargetIdx == 1..Len(targets)

hostQjscName(platform, arch) ==
    IF platform = "darwin" THEN (IF arch = "arm64" THEN "qjsc_mac_arm" ELSE "qjsc_mac_intel")
    ELSE IF platform = "linux"
         THEN (IF arch \in {"arm64", "aarch64"} THEN "qjsc_linux_arm" ELSE "qjsc_linux64")
    ELSE IF platform = "win32" THEN "qjsc_win64.exe"
    ELSE ""

\* the hosts the install step accepts (platformMap x archMap)
Hosts == {[platform |-> pl, arch |-> a] : pl \in {"win32", "darwin", "linux"}, a \in {"x64", "arm64"}}

\* the registrations a manifest may carry (Object.keys order)
ModuleLists == {<<>>, <<"my_module">>}

\* a backup step that copies over an existing backup
BackupOverwrite(backup, content) == content

\* the first-write-wins backup of the patch stage
BackupContent(backup, content) == IF backup = NoFile THEN content ELSE backup

(***************************************************************************)
(* The platform tree resolver (processDirectory).                          *)
(*                                                                         *)
(* A file name is the sequence of its dot-separated parts (file.split('.')),*)
(* a directory path the sequence of the names leading to it from the       *)
(* directory of the entry point.  A script text is a sequence of tokens:   *)
(* the words import and from, a blank, a line break, a quote, a module     *)
(* path less its extension, the extensions .mjs and .js, and other words.  *)
(***************************************************************************)
knownPlats == {"win32", "darwin", "linux"}

isMjs(file) == Len(file) >= 2 /\ file[Len(file)] \in {"mjs", "js"}

\* parts.length > 2 ? parts[parts.length - 2] : null  (null is "")
filePlat(file) == IF Len(file) > 2 THEN file[Len(file) - 1] ELSE ""

\* a specific name built by appending the platform after the extension
specFileAppended(file, targetPlat) == file \o <<targetPlat>>

\* file.replace(/\.mjs$/, `.${targetPlat}.mjs`)
specFile(file, targetPlat) ==
    IF Len(file) >= 2 /\ file[Len(file)] = "mjs"
    THEN SubSeq(file, 1, Len(file) - 1) \o <<targetPlat, "mjs">>
    ELSE file

\* a platform test that reads the last part of the name, the extension
SkipOtherPlatLastPart(file, targetPlat) ==
    /\ file[Len(file)] \in knownPlats
    /\ file[Len(file)] # targetPlat

\* 1. Skip files belonging to OTHER platforms
SkipOtherPlat(file, targetPlat) ==
    /\ filePlat(file) # ""
    /\ filePlat(file) \in knownPlats
    /\ filePlat(file) # targetPlat

\* 2. a generic file is skipped when its specific version is listed
SkipGeneric(file, filesInSource, targetPlat) ==
    /\ filePlat(file) = "" \/ filePlat(file) \notin knownPlats
    /\ specFile(file, targetPlat) \in filesInSource

NoSpecifier == [dirs |-> <<>>, base |-> <<>>]
Tok(k) == [k |-> k, p |-> NoSpecifier]
PathTok(sp) == [k |-> "path", p |-> sp]
PlatTok(targetPlat) == [k |-> "plat", p |-> [dirs |-> <<>>, base |-> <<targetPlat>>]]

\* \s matches a blank and a line break; . matches anything but a line break
IsSpace(t) == t.k \in {"sp", "nl"}
IsDot(t) == t.k # "nl"

SpaceRun(c, i, j) == \A k \in i..j : IsSpace(c[k])
DotRun(c, i, j) == \A k \in i..j : IsDot(c[k])

(***************************************************************************)
(* /(import\s+.+?\s+from\s+['"])(.+?)\.mjs(['"])/ anchored at token i0.    *)
(* A match is <<a, b, c, d, e>>: the ends of \s+, .+?, \s+, \s+ and (.+?). *)
(***************************************************************************)
ImportMatches(c, i0) ==
    IF c[i0].k # "import" THEN {}
    ELSE LET n == Len(c) IN
      UNION { UNION { UNION { UNION {
        { <<a, b, cc, d, e>> : e \in { x \in (d + 2)..(n - 2) :
                                         /\ DotRun(c, d + 2, x)
                                         /\ c[x + 1].k = ".mjs"
                                         /\ c[x + 2].k = "q" } }
        : d \in { x \in (cc + 2)..(n - 1) : SpaceRun(c, cc + 2, x) /\ c[x + 1].k = "q" } }
        : cc \in { x \in (b + 1)..(n - 1) : SpaceRun(c, b + 1, x) /\ c[x + 1].k = "from" } }
        : b \in { x \in (a + 1)..n : DotRun(c, a + 1, x) } }
        : a \in { x \in (i0 + 1)..n : SpaceRun(c, i0 + 1, x) } }

\* the order in which backtracking tries the matches: \s+ is greedy, .+? lazy
TriedBefore(m1, m2) ==
    \/ m1[1] > m2[1]
    \/ m1[1] = m2[1] /\ m1[2] < m2[2]
    \/ m1[1] = m2[1] /\ m1[2] = m2[2] /\ m1[3] > m2[3]
    \/ m1[1] = m2[1] /\ m1[2] = m2[2] /\ m1[3] = m2[3] /\ m1[4] > m2[4]
    \/ m1[1] = m2[1] /\ m1[2] = m2[2] /\ m1[3] = m2[3] /\ m1[4] = m2[4] /\ m1[5] < m2[5]

FirstMatch(c, i0) ==
    CHOOSE m \in ImportMatches(c, i0) :
        \A m2 \in ImportMatches(c, i0) \ {m} : TriedBefore(m, m2)

\* existsSync(path.resolve(currentDir, `${importPath}.${targetPlat}.mjs`)):
\* a captured text that is not one module path names no file of the tree
PlatFileExists(importPath, currentDir, targetPlat, srcFiles, srcDirs) ==
    /\ Len(importPath) = 1
    /\ importPath[1].k = "path"
    /\ LET sp == importPath[1].p
           full == (currentDir \o sp.dirs) \o <<sp.base \o <<targetPlat, "mjs">>>>
       IN full \in srcFiles \cup srcDirs

\* content.replace(/.../g, callback) from token pos on
RECURSIVE RewriteFrom(_, _, _, _, _, _)
RewriteFrom(c, pos, currentDir, targetPlat, srcFiles, srcDirs) ==
    IF pos > Len(c) THEN <<>>
    ELSE IF ImportMatches(c, pos) = {}
    THEN <<c[pos]>> \o RewriteFrom(c, pos + 1, currentDir, targetPlat, srcFiles, srcDirs)
    ELSE LET m == FirstMatch(c, pos)
             d == m[4]
             e == m[5]
             importPath == SubSeq(c, d + 2, e)
         IN (IF PlatFileExists(importPath, currentDir, targetPlat, srcFiles, srcDirs)
             THEN SubSeq(c, pos, e) \o <<PlatTok(targetPlat)>> \o SubSeq(c, e + 1, e + 2)
             ELSE SubSeq(c, pos, e + 2))
            \o RewriteFrom(c, e + 3, currentDir, targetPlat, srcFiles, srcDirs)

RewriteImports(c, currentDir, targetPlat, srcFiles, srcDirs) ==
    RewriteFrom(c, 1, currentDir, targetPlat, srcFiles, srcDirs)

(***************************************************************************)
(* Application source trees and script texts the resolver is run on.       *)
(***************************************************************************)
MaxFiles == 3       \* files of the source tree beside the importing script

MaxDepth == 6       \* longest path, in names below the project root, the file system accepts

LibDir    == <<"lib">>
IndexName == <<"index", "mjs">>
SrcDirs   == {<<>>, <<LibDir>>}

\* what the project root holds beside the application when the tree is resolved
BinDir       == <<"bin">>
DistDir      == <<"dist">>
ManifestFile == << <<"package", "json">> >>
RootDirs     == {<<BinDir>>, <<DistDir>>}

\* path.basename(INPUT_FILE_RELATIVE) in the directory resolved: TARGET_INPUT_ABS
\* is this path in the build tree
EntryFile == <<IndexName>>

\* PLATFORM_BUILD_DIR, from the project root
BuildDir == <<"build">>
IdDir    == <<"target-id">>
Dest     == <<BuildDir, IdDir>>

Prefixes(path) == {SubSeq(path, 1, k) : k \in 1..Len(path)}

CandidateFiles == {
    << <<"m", "mjs">> >>, << <<"m", "darwin", "mjs">> >>, << <<"m", "win32", "mjs">> >>,
    << <<"u", "js">> >>, << <<"a", "png">> >>, << <<"index", "darwin", "mjs">> >>,
    << LibDir, <<"m", "mjs">> >>, << LibDir, <<"m", "darwin", "mjs">> >>,
    << LibDir, <<"m", "win32", "mjs">> >> }

Specifier(dirs, base) == [dirs |-> dirs, base |-> base]
Stmt(kind, sp, ext) == [kind |-> kind, spec |-> sp, ext |-> ext]

CodeStmt == Stmt("code", NoSpecifier, "")

\* import x from './m.mjs'
ImportM == Stmt("import", Specifier(<<>>, <<"m">>), ".mjs")

Stmts == {
    ImportM,
    Stmt("import", Specifier(<<LibDir>>, <<"m">>), ".mjs"),
    Stmt("import", Specifier(<<>>, <<"m", "darwin">>), ".mjs"),
    Stmt("import", Specifier(<<>>, <<"u">>), ".js"),
    Stmt("import_multiline", Specifier(<<>>, <<"m">>), ".mjs"),
    Stmt("export", Specifier(<<>>, <<"m">>), ".mjs"),
    Stmt("side_effect", Specifier(<<>>, <<"m">>), ".mjs"),
    CodeStmt }

\* a script: one statement, or two on two lines or on one line
Scripts == {sc \in [first : Stmts, sep : {"nl", "semi"}, second : {ImportM, CodeStmt}] :
               sc.second = CodeStmt => sc.sep = "nl"}

\* the text of a statement; suffix is put between the module path and its extension
StmtText(st, suffix) ==
    LET ref == <<Tok("q"), PathTok(st.spec)>> \o suffix \o <<Tok(st.ext), Tok("q")>>
        fromRef == <<Tok("sp"), Tok("from"), Tok("sp")>> \o ref
    IN CASE st.kind = "import" -> <<Tok("import"), Tok("sp"), Tok("word")>> \o fromRef
         [] st.kind = "import_multiline" ->
                <<Tok("import"), Tok("sp"), Tok("word"), Tok("nl"), Tok("word")>> \o fromRef
         [] st.kind = "export" -> <<Tok("word"), Tok("sp"), Tok("word")>> \o fromRef
         [] st.kind = "side_effect" -> <<Tok("import"), Tok("sp")>> \o ref
         [] OTHER -> <<Tok("word")>>

SepText(sep) == IF sep = "nl" THEN <<Tok("nl")>> ELSE <<Tok("word"), Tok("sp")>>

ScriptText(sc) == StmtText(sc.first, <<>>) \o SepText(sc.sep) \o StmtText(sc.second, <<>>)

Front(path) == SubSeq(path, 1, Len(path) - 1)
Last(path) == path[Len(path)]

\* the text of a file other than the importing script: one word naming the file
OwnText(path) == <<[k |-> "word", p |-> Specifier(Front(path), Last(path))]>>

(***************************************************************************)
(* The build run: state.                                                   *)
(***************************************************************************)
VARIABLES
    env,        \* host, manifest and shim fragment: fixed for the life of the project
    vend,       \* contents of the three vendor files
    bak,        \* contents of their .bak files, NoFile when there is none
    stub,       \* whether quickjs/repl_stub.c exists
    bin,        \* file names in the tools directory (BIN_DIR)
    tempc,      \* ids t with a <t>_app.c file in BIN_DIR
    dist,       \* file names in the distribution directory (DIST_DIR)
    build,      \* ids t with a build/<t> tree
    pc,         \* position of the running script
    pf,         \* index of the vendor file being patched or restored
    ti,         \* index of the target being built
    run,        \* number of runs started
    faults,     \* number of faults injected
    preRun,     \* history: vendor contents when the current run started
    applied,    \* history: patch writes to each vendor file since it was last pristine
    failStage,  \* history: stage of the latest failed operation of the current run
    attempted,  \* history: targets whose pipeline was entered in the current run
    toolFault,  \* history: targets one of whose toolchain invocations failed in this run
    builtNow,   \* history: helper binaries written in the current run
    consumed,   \* history: <<j, i>> when a step of target j read a file target i wrote in this run
    bakMade,    \* history: number of times each .bak file was created in the current run
    written,    \* history: vendor files the patch stage has written in the current run
    finished    \* history: <<i, stage>> for each stage of target i completed in this run

vars == <<env, vend, bak, stub, bin, tempc, dist, build, pc, pf, ti, run, faults,
          preRun, applied, failStage, attempted, toolFault, builtNow, consumed,
          bakMade, written, finished>>

histVars == <<preRun, applied, attempted, toolFault, builtNow, consumed,
              bakMade, written, finished>>

(***************************************************************************)
(* The install step (postinstall.mjs): state.                              *)
(***************************************************************************)
VARIABLES
    ipc,        \* position of the install script, "exit0" / "exit1" once it has ended
    ihost,      \* os.platform() and os.arch()
    qjsDir,     \* whether the quickjs directory exists
    qjsArchive, \* whether the downloaded qjs.<ext> archive exists
    qjsMaster,  \* whether the unpacked quickjs-master directory exists
    zigBin,     \* whether bin/zig/zig (zig.exe) exists
    zigArchive, \* whether the downloaded zig archive exists
    zigSub,     \* whether the unpacked zig-<target>-<version> subfolder exists (Windows)
    ifaults,    \* number of faults injected
    ifailed     \* history: the dependencies whose download or unpacking failed

ivars == <<ipc, ihost, qjsDir, qjsArchive, qjsMaster, zigBin, zigArchive, zigSub,
           ifaults, ifailed>>

InstallOff ==
    /\ ipc = "off"
    /\ ihost = [platform |-> "linux", arch |-> "x64"]
    /\ qjsDir = TRUE
    /\ qjsArchive = FALSE
    /\ qjsMaster = FALSE
    /\ zigBin = TRUE
    /\ zigArchive = FALSE
    /\ zigSub = FALSE
    /\ ifaults = 0
    /\ ifailed = {}

(***************************************************************************)
(* The resolver: state.                                                    *)
(***************************************************************************)
VARIABLES
    rpc,        \* "off", "idle", "walk", "done" or "crashed"
    rplat,      \* targetPlat
    rfiles,     \* paths of the files of the source tree
    rindex,     \* path of the importing script
    rscript,    \* its statements
    rtree,      \* the build tree: text of each file written, by path
    rmade,      \* the build tree: directories created
    rstack,     \* the processDirectory calls in progress: [dir, list, todo]
    rroot       \* whether the entry point lies in the project root (inputBaseDir = USER_CWD)

rvars == <<rpc, rplat, rfiles, rindex, rscript, rtree, rmade, rstack, rroot>>

\* the directories the source directory holds before the resolver runs
BaseDirs == SrcDirs \cup (IF rroot THEN RootDirs ELSE {})

\* the directory resolved as the file system shows it: with the entry point in
\* the project root, build/<id> and all that is written to it lie inside it
SrcDirsWith(made) ==
    BaseDirs \cup (IF rroot THEN UNION {Prefixes(Dest \o d) : d \in made} ELSE {})

SrcDirsNow == SrcDirsWith(rmade)

SrcFilesNow ==
    rfiles \cup (IF rroot THEN {Dest \o p : p \in DOMAIN rtree} ELSE {})

SrcText(path) ==
    IF path \notin rfiles THEN rtree[SubSeq(path, Len(Dest) + 1, Len(path))]
    ELSE IF path = rindex THEN ScriptText(rscript) ELSE OwnText(path)

\* readdirSync(currentDir), made being the directories of the build tree
Listing(dir, made) ==
    {Last(p) : p \in {q \in SrcFilesNow \cup (SrcDirsWith(made) \ {<<>>}) : Front(q) = dir}}

\* the path a call of mkdirSync, writeFileSync or cpSync is given is accepted
Fits(path) == Len(Dest \o path) <= MaxDepth

EmptyTree == [p \in {} |-> <<>>]

ResolverOff ==
    /\ rpc = "off"
    /\ rplat = "linux"
    /\ rfiles = {}
    /\ rindex = <<IndexName>>
    /\ rscript = [first |-> CodeStmt, sep |-> "nl", second |-> CodeStmt]
    /\ rtree = EmptyTree
    /\ rmade = {}
    /\ rstack = <<>>
    /\ rroot = FALSE

\* the root layout is resolved with one script, the other with every script
ResolverInit ==
    /\ rpc = "idle"
    /\ rplat \in knownPlats
    /\ rroot \in BOOLEAN
    /\ rindex \in {<<IndexName>>, <<LibDir, IndexName>>}
    /\ rroot => rindex = <<IndexName>>
    /\ \E extra \in SUBSET CandidateFiles :
        /\ Cardinality(extra) <= MaxFiles
        /\ rfiles = extra \cup {rindex} \cup (IF rroot THEN {ManifestFile} ELSE {})
    /\ rscript \in Scripts
    /\ rroot => rscript = [first |-> ImportM, sep |-> "nl", second |-> CodeStmt]
    /\ rtree = EmptyTree
    /\ rmade = {}
    /\ rstack = <<>>

Top == rstack[Len(rstack)]
Pop == SubSeq(rstack, 1, Len(rstack) - 1)
Taken(file) == Pop \o <<[Top EXCEPT !.todo = Top.todo \ {file}]>>

\* the entry the forEach of the innermost call is at: readdirSync lists a
\* directory in one fixed order, and no step depends on which
Entry == CHOOSE file \in Top.todo : TRUE

\* processDirectory(inputBaseDir, PLATFORM_BUILD_DIR, t.plat) is called
StartResolve ==
    /\ UNCHANGED <<vars, ivars>>
    /\ rpc = "idle"
    /\ rpc' = "walk"
    /\ rmade' = {<<>>}
    /\ rstack' = <<[dir |-> <<>>, list |-> Listing(<<>>, {<<>>}),
                    todo |-> Listing(<<>>, {<<>>})]>>
    /\ UNCHANGED <<rplat, rfiles, rindex, rscript, rtree, rroot>>

\* an entry that is a directory: the recursive call
EnterDirectory ==
    /\ UNCHANGED <<vars, ivars>>
    /\ rpc = "walk"
    /\ Top.todo # {}
    /\ LET file == Entry
           sub == Top.dir \o <<file>> IN
        /\ sub \in SrcDirsNow
        /\ Fits(sub)
        /\ rmade' = rmade \cup {sub}
        /\ rstack' = Taken(file) \o <<[dir |-> sub, list |-> Listing(sub, rmade \cup {sub}),
                                        todo |-> Listing(sub, rmade \cup {sub})]>>
    /\ UNCHANGED <<rpc, rplat, rfiles, rindex, rscript, rtree, rroot>>

\* a script of another platform, or a generic script with a specific sibling
SkipScript ==
    /\ UNCHANGED <<vars, ivars>>
    /\ rpc = "walk"
    /\ Top.todo # {}
    /\ LET file == Entry IN
        /\ Top.dir \o <<file>> \notin SrcDirsNow
        /\ isMjs(file)
        /\ SkipOtherPlat(file, rplat) \/ SkipGeneric(file, Top.list, rplat)
        /\ rstack' = Taken(file)
    /\ UNCHANGED <<rpc, rplat, rfiles, rindex, rscript, rtree, rmade, rroot>>

\* a surviving script: its imports are rewritten and the text is written
WriteScript ==
    /\ UNCHANGED <<vars, ivars>>
    /\ rpc = "walk"
    /\ Top.todo # {}
    /\ LET file == Entry
           path == Top.dir \o <<file>> IN
        /\ path \notin SrcDirsNow
        /\ isMjs(file)
        /\ ~SkipOtherPlat(file, rplat)
        /\ ~SkipGeneric(file, Top.list, rplat)
        /\ Fits(path)
        /\ rtree' = (path :> RewriteImports(SrcText(path), Top.dir, rplat,
                                            SrcFilesNow, SrcDirsNow))
                        @@ rtree
        /\ rstack' = Taken(file)
    /\ UNCHANGED <<rpc, rplat, rfiles, rindex, rscript, rmade, rroot>>

\* any other file is copied as is
CopyAsset ==
    /\ UNCHANGED <<vars, ivars>>
    /\ rpc = "walk"
    /\ Top.todo # {}
    /\ LET file == Entry
           path == Top.dir \o <<file>> IN
        /\ path \notin SrcDirsNow
        /\ ~isMjs(file)
        /\ Fits(path)
        /\ rtree' = (path :> SrcText(path)) @@ rtree
        /\ rstack' = Taken(file)
    /\ UNCHANGED <<rpc, rplat, rfiles, rindex, rscript, rmade, rroot>>

\* mkdirSync, writeFileSync or cpSync is given a path the file system refuses:
\* the exception ends every call in progress
PathTooLong ==
    /\ UNCHANGED <<vars, ivars>>
    /\ rpc = "walk"
    /\ Top.todo # {}
    /\ LET file == Entry
           path == Top.dir \o <<file>> IN
        /\ ~Fits(path)
        /\ path \in SrcDirsNow
             \/ ~isMjs(file)
             \/ ~(SkipOtherPlat(file, rplat) \/ SkipGeneric(file, Top.list, rplat))
    /\ rpc' = "crashed"
    /\ UNCHANGED <<rplat, rfiles, rindex, rscript, rtree, rmade, rstack, rroot>>

\* the forEach of a call is over: the call returns
LeaveDirectory ==
    /\ UNCHANGED <<vars, ivars>>
    /\ rpc = "walk"
    /\ Top.todo = {}
    /\ rstack' = Pop
    /\ rpc' = IF Len(rstack) = 1 THEN "done" ELSE "walk"
    /\ UNCHANGED <<rplat, rfiles, rindex, rscript, rtree, rmade, rroot>>

(***************************************************************************)
(* The build run: initial state and steps.                                 *)
(***************************************************************************)
Terminal == {"done", "crashed", "failed"}
TargetStages == {"resolve", "qjs", "qjsc", "precompile", "link"}

\* the status the process ends with: 0 when the script runs to its last line,
\* 1 after process.exit(1) and after an exception nothing catches
ExitStatus == IF pc = "done" THEN 0 ELSE 1

\* the last two console.log calls were reached
Banner == pc = "done"

hostQjsc == hostQjscName(env.host.platform, env.host.arch)

BuildInit ==
    /\ env \in [host : Hosts, modules : ModuleLists, execSrc : BOOLEAN, manifest : BOOLEAN,
                zig : BOOLEAN]
    /\ vend = Pristine
    /\ bak = [f \in VendorSet |-> NoFile]
    /\ stub = FALSE
    /\ bin = {}
    /\ tempc = {}
    /\ dist = {}
    /\ build = {}
    /\ pc = "idle"
    /\ pf = 1
    /\ ti = 1
    /\ run = 0
    /\ faults = 0
    /\ preRun = Pristine
    /\ applied = [f \in VendorSet |-> 0]
    /\ failStage = "none"
    /\ attempted = {}
    /\ toolFault = {}
    /\ builtNow = {}
    /\ consumed = {}
    /\ bakMade = [f \in VendorSet |-> 0]
    /\ written = {}
    /\ finished = {}

\* an operation either succeeds or, within the fault budget, fails
Outcome(ok) == /\ ok \in BOOLEAN
               /\ ok \/ faults < MaxFaults
               /\ faults' = IF ok THEN faults ELSE faults + 1

\* an invocation of the toolchain: it fails whenever bin/zig/zig is not there
ZigOutcome(ok) == IF env.zig THEN Outcome(ok)
                  ELSE ok = FALSE /\ faults' = faults

\* an exception nothing catches ends the process
Crash(stage) == /\ pc' = "crashed"
                /\ failStage' = stage

(***************************************************************************)
(* Start of a run: the build directory is removed, the manifest is read.   *)
(***************************************************************************)
\* rmSync(GLOBAL_BUILD_DIR, { recursive: true }) on the set of build trees
CleanBuildKeep(trees) == trees

CleanBuild(trees) == {}

\* rmSync(PLATFORM_BUILD_DIR, { recursive: true })
RemoveTree(trees, id) == trees \ {id}

StartRun ==
    /\ UNCHANGED <<rvars, ivars>>
    /\ pc \in {"idle"} \cup Terminal
    /\ run < MaxRuns
    /\ run' = run + 1
    /\ \E ok \in BOOLEAN :
        /\ Outcome(ok)
        /\ ok \/ build # {}
        /\ IF ~ok THEN Crash("clean") /\ build' = build
           ELSE /\ build' = CleanBuild(build)
                /\ IF env.manifest
                   THEN pc' = "patch_backup" /\ failStage' = "none"
                   ELSE pc' = "failed" /\ failStage' = "manifest"
    /\ pf' = 1
    /\ ti' = 1
    /\ preRun' = vend
    /\ attempted' = {}
    /\ toolFault' = {}
    /\ builtNow' = {}
    /\ consumed' = {}
    /\ bakMade' = [f \in VendorSet |-> 0]
    /\ written' = {}
    /\ finished' = {}
    /\ UNCHANGED <<env, vend, bak, stub, bin, tempc, dist, applied>>

(***************************************************************************)
(* STAGE 0: each vendor file is backed up (once), then rewritten.          *)
(***************************************************************************)
PatchBackup ==
    /\ UNCHANGED <<rvars, ivars>>
    /\ pc = "patch_backup"
    /\ LET f == VendorFiles[pf] IN
       \E ok \in BOOLEAN :
        /\ Outcome(ok)
        /\ IF ok THEN /\ bak' = [bak EXCEPT ![f] = BackupContent(bak[f], vend[f])]
                      /\ bakMade' = [bakMade EXCEPT ![f] = IF bak[f] = NoFile THEN @ + 1 ELSE @]
                      /\ pc' = "patch_write"
                      /\ failStage' = failStage
           ELSE Crash("patch") /\ UNCHANGED <<bak, bakMade>>
    /\ UNCHANGED <<env, vend, stub, bin, tempc, dist, build, pf, ti, run>>
    /\ UNCHANGED <<preRun, applied, attempted, toolFault, builtNow, consumed, written, finished>>

PatchWrite ==
    /\ UNCHANGED <<rvars, ivars>>
    /\ pc = "patch_write"
    /\ LET f == VendorFiles[pf] IN
       \E ok \in BOOLEAN :
        /\ Outcome(ok)
        /\ IF ok THEN /\ vend' = [vend EXCEPT ![f] =
                                    PatchedContent(f, vend[f], env.modules, env.execSrc)]
                      /\ applied' = [applied EXCEPT ![f] = applied[f] + 1]
                      /\ written' = written \cup {f}
                      /\ pc' = IF pf < Len(VendorFiles) THEN "patch_backup" ELSE "stub"
                      /\ pf' = IF pf < Len(VendorFiles) THEN pf + 1 ELSE 1
                      /\ failStage' = failStage
           ELSE Crash("patch") /\ UNCHANGED <<vend, applied, pf, written>>
    /\ UNCHANGED <<env, bak, stub, bin, tempc, dist, build, ti, run>>
    /\ UNCHANGED <<preRun, attempted, toolFault, builtNow, consumed, bakMade, finished>>

WriteStub ==
    /\ UNCHANGED <<rvars, ivars>>
    /\ pc = "stub"
    /\ \E ok \in BOOLEAN :
        /\ Outcome(ok)
        /\ IF ok THEN stub' = TRUE /\ pc' = "resolve" /\ failStage' = failStage
           ELSE Crash("stub") /\ stub' = stub
    /\ UNCHANGED <<env, vend, bak, bin, tempc, dist, build, pf, ti, run>>
    /\ UNCHANGED histVars

(***************************************************************************)
(* STAGE 1 & 2: the pipeline of target ti.                                 *)
(***************************************************************************)
\* the catch block of the loop body: on to the next target, or to the cleanup
AfterTargetSkip == IF ti < Len(targets) - 1 THEN pc' = "resolve" /\ ti' = ti + 2
                   ELSE pc' = "cleanup" /\ ti' = ti

AfterTargetAbort == pc' = "crashed" /\ ti' = ti

AfterTarget == IF ti < Len(targets) THEN pc' = "resolve" /\ ti' = ti + 1
               ELSE pc' = "cleanup" /\ ti' = ti

ResolveTree ==
    /\ UNCHANGED <<rvars, ivars>>
    /\ pc = "resolve"
    /\ attempted' = attempted \cup {ti}
    /\ \E ok \in BOOLEAN :
        /\ Outcome(ok)
        /\ IF ok THEN /\ build' = RemoveTree(build, targets[ti].id) \cup {targets[ti].id}
                      /\ finished' = finished \cup {<<ti, "resolve">>}
                      /\ pc' = "qjs"
                      /\ failStage' = failStage
           ELSE Crash("resolve") /\ UNCHANGED <<build, finished>>
    /\ UNCHANGED <<env, vend, bak, stub, bin, tempc, dist, pf, ti, run>>
    /\ UNCHANGED <<preRun, applied, toolFault, builtNow, consumed, bakMade, written>>

BuildQjs ==
    /\ UNCHANGED <<rvars, ivars>>
    /\ pc = "qjs"
    /\ \E ok \in BOOLEAN :
        /\ ZigOutcome(ok)
        /\ IF ok THEN /\ bin' = bin \cup {targets[ti].qjs}
                      /\ finished' = finished \cup {<<ti, "qjs">>}
                      /\ pc' = "qjsc"
                      /\ UNCHANGED <<ti, failStage, toolFault>>
           ELSE /\ AfterTarget
                /\ failStage' = "qjs"
                /\ toolFault' = toolFault \cup {ti}
                /\ UNCHANGED <<bin, finished>>
    /\ UNCHANGED <<env, vend, bak, stub, tempc, dist, build, pf, run>>
    /\ UNCHANGED <<preRun, applied, attempted, builtNow, consumed, bakMade, written>>

BuildQjsc ==
    /\ UNCHANGED <<rvars, ivars>>
    /\ pc = "qjsc"
    /\ \E ok \in BOOLEAN :
        /\ ZigOutcome(ok)
        /\ IF ok THEN /\ bin' = bin \cup {targets[ti].qjsc}
                      /\ builtNow' = builtNow \cup {targets[ti].qjsc}
                      /\ finished' = finished \cup {<<ti, "qjsc">>}
                      /\ pc' = "precompile"
                      /\ UNCHANGED <<ti, failStage, toolFault>>
           ELSE /\ AfterTarget
                /\ failStage' = "qjsc"
                /\ toolFault' = toolFault \cup {ti}
                /\ UNCHANGED <<bin, builtNow, finished>>
    /\ UNCHANGED <<env, vend, bak, stub, tempc, dist, build, pf, run>>
    /\ UNCHANGED <<preRun, applied, attempted, consumed, bakMade, written>>

\* the targets whose helper build writes the file the pre-compile step runs
Producers(name) == {i \in TargetIdx : targets[i].qjsc = name}

Precompile ==
    /\ UNCHANGED <<rvars, ivars>>
    /\ pc = "precompile"
    /\ \E ok \in BOOLEAN :
        /\ Outcome(ok)
        /\ IF hostQjsc \in bin /\ ok
           THEN /\ tempc' = tempc \cup {targets[ti].id}
                /\ consumed' = IF hostQjsc \in builtNow
                               THEN consumed \cup {<<ti, i>> : i \in Producers(hostQjsc)}
                               ELSE consumed
                /\ finished' = finished \cup {<<ti, "precompile">>}
                /\ pc' = "link"
                /\ UNCHANGED <<ti, failStage, toolFault>>
           ELSE /\ AfterTarget
                /\ failStage' = "precompile"
                /\ toolFault' = IF ok THEN toolFault ELSE toolFault \cup {ti}
                /\ UNCHANGED <<tempc, consumed, finished>>
    /\ UNCHANGED <<env, vend, bak, stub, bin, dist, build, pf, run>>
    /\ UNCHANGED <<preRun, applied, attempted, builtNow, bakMade, written>>

Link ==
    /\ UNCHANGED <<rvars, ivars>>
    /\ pc = "link"
    /\ \E ok \in BOOLEAN :
        /\ ZigOutcome(ok)
        /\ AfterTarget
        /\ IF ok THEN /\ dist' = dist \cup {targets[ti].app}
                      /\ finished' = finished \cup {<<ti, "link">>}
                      /\ UNCHANGED <<failStage, toolFault>>
           ELSE /\ failStage' = "link"
                /\ toolFault' = toolFault \cup {ti}
                /\ UNCHANGED <<dist, finished>>
    /\ UNCHANGED <<env, vend, bak, stub, bin, tempc, build, pf, run>>
    /\ UNCHANGED <<preRun, applied, attempted, builtNow, consumed, bakMade, written>>

(***************************************************************************)
(* STAGE 3: temporary sources are deleted, backups are renamed back.       *)
(***************************************************************************)
RemoveTemp ==
    /\ UNCHANGED <<rvars, ivars>>
    /\ pc = "cleanup"
    /\ \E ok \in BOOLEAN :
        /\ Outcome(ok)
        /\ ok \/ tempc # {}
        /\ IF ok THEN tempc' = {} /\ pc' = "restore" /\ failStage' = failStage
           ELSE Crash("cleanup") /\ tempc' = tempc
    /\ pf' = 1
    /\ UNCHANGED <<env, vend, bak, stub, bin, dist, build, ti, run>>
    /\ UNCHANGED histVars

Restore ==
    /\ UNCHANGED <<rvars, ivars>>
    /\ pc = "restore"
    /\ LET f == VendorFiles[pf] IN
       \E ok \in BOOLEAN :
        /\ Outcome(ok)
        /\ ok \/ bak[f] # NoFile
        /\ IF ok THEN /\ IF bak[f] # NoFile
                         THEN /\ vend' = [vend EXCEPT ![f] = bak[f]]
                              /\ bak' = [bak EXCEPT ![f] = NoFile]
                              /\ applied' = [applied EXCEPT ![f] = 0]
                         ELSE UNCHANGED <<vend, bak, applied>>
                      /\ pc' = IF pf < Len(VendorFiles) THEN "restore" ELSE "unstub"
                      /\ pf' = IF pf < Len(VendorFiles) THEN pf + 1 ELSE 1
                      /\ failStage' = failStage
           ELSE Crash("restore") /\ UNCHANGED <<vend, bak, applied, pf>>
    /\ UNCHANGED <<env, stub, bin, tempc, dist, build, ti, run>>
    /\ UNCHANGED <<preRun, attempted, toolFault, builtNow, consumed, bakMade, written, finished>>

RemoveStub ==
    /\ UNCHANGED <<rvars, ivars>>
    /\ pc = "unstub"
    /\ \E ok \in BOOLEAN :
        /\ Outcome(ok)
        /\ ok \/ stub
        /\ IF ok THEN stub' = FALSE /\ pc' = "done" /\ failStage' = failStage
           ELSE Crash("unstub") /\ stub' = stub
    /\ UNCHANGED <<env, vend, bak, bin, tempc, dist, build, pf, ti, run>>
    /\ UNCHANGED histVars

Init == BuildInit /\ ResolverOff /\ InstallOff

Next ==
    \/ StartRun
    \/ PatchBackup
    \/ PatchWrite
    \/ WriteStub
    \/ ResolveTree
    \/ BuildQjs
    \/ BuildQjsc
    \/ Precompile
    \/ Link
    \/ RemoveTemp
    \/ Restore
    \/ RemoveStub

allVars == <<vars, rvars, ivars>>

Spec == Init /\ [][Next]_allVars

(***************************************************************************)
(* The resolver run on its own: one call of processDirectory on a source   *)
(* tree, with the build run at rest.                                       *)
(***************************************************************************)
BuildOff ==
    /\ env = [host |-> [platform |-> "linux", arch |-> "x64"], modules |-> <<>>,
              execSrc |-> FALSE, manifest |-> TRUE, zig |-> TRUE]
    /\ vend = Pristine
    /\ bak = [f \in VendorSet |-> NoFile]
    /\ stub = FALSE
    /\ bin = {}
    /\ tempc = {}
    /\ dist = {}
    /\ build = {}
    /\ pc = "off"
    /\ pf = 1
    /\ ti = 1
    /\ run = 0
    /\ faults = 0
    /\ preRun = Pristine
    /\ applied = [f \in VendorSet |-> 0]
    /\ failStage = "none"
    /\ attempted = {}
    /\ toolFault = {}
    /\ builtNow = {}
    /\ consumed = {}
    /\ bakMade = [f \in VendorSet |-> 0]
    /\ written = {}
    /\ finished = {}

InitResolve == BuildOff /\ ResolverInit /\ InstallOff

NextResolve ==
    \/ StartResolve
    \/ EnterDirectory
    \/ SkipScript
    \/ WriteScript
    \/ CopyAsset
    \/ PathTooLong
    \/ LeaveDirectory

SpecResolve == InitResolve /\ [][NextResolve]_allVars

(***************************************************************************)
(* The install step: it fetches the QuickJS sources, then the Zig          *)
(* toolchain, each by a download followed by an unpacking.                 *)
(***************************************************************************)
platformMap == [win32 |-> "windows", darwin |-> "macos", linux |-> "linux"]
archMap == [x64 |-> "x86_64", arm64 |-> "aarch64"]

\* the values os.platform() and os.arch() are drawn from
Platforms == {"win32", "darwin", "linux", "freebsd"}
Archs == {"x64", "arm64", "ia32"}

Supported(host) == host.platform \in DOMAIN platformMap /\ host.arch \in DOMAIN archMap
IsWindows == platformMap[ihost.platform] = "windows"

InstallInit ==
    /\ ipc = "start"
    /\ ihost \in [platform : Platforms, arch : Archs]
    /\ qjsDir \in BOOLEAN
    /\ qjsArchive = FALSE
    /\ qjsMaster = FALSE
    /\ zigBin \in BOOLEAN
    /\ zigArchive = FALSE
    /\ zigSub = FALSE
    /\ ifaults = 0
    /\ ifailed = {}

\* a download or a command either succeeds or, within the fault budget, fails
IOutcome(ok) == /\ ok \in BOOLEAN
                /\ ok \/ ifaults < MaxFaults
                /\ ifaults' = IF ok THEN ifaults ELSE ifaults + 1

\* the catch block of the QuickJS part: the error is logged, the script goes on
QjsCaught == /\ ipc' = "zig_check"
             /\ ifailed' = ifailed \cup {"quickjs"}

\* the catch block of the Zig part: process.exit(1)
ZigCaught == /\ ipc' = "exit1"
             /\ ifailed' = ifailed \cup {"zig"}

CheckHost ==
    /\ UNCHANGED <<vars, rvars>>
    /\ ipc = "start"
    /\ ipc' = IF ~Supported(ihost) THEN "exit1"
              ELSE IF ~qjsDir THEN "qjs_download" ELSE "zig_check"
    /\ UNCHANGED <<ihost, qjsDir, qjsArchive, qjsMaster, zigBin, zigArchive, zigSub,
                   ifaults, ifailed>>

QjsDownload ==
    /\ UNCHANGED <<vars, rvars>>
    /\ ipc = "qjs_download"
    /\ \E ok \in BOOLEAN :
        /\ IOutcome(ok)
        /\ IF ok THEN qjsArchive' = TRUE /\ ipc' = "qjs_extract" /\ ifailed' = ifailed
           ELSE QjsCaught /\ qjsArchive' = qjsArchive
    /\ UNCHANGED <<ihost, qjsDir, qjsMaster, zigBin, zigArchive, zigSub>>

QjsExtract ==
    /\ UNCHANGED <<vars, rvars>>
    /\ ipc = "qjs_extract"
    /\ \E ok \in BOOLEAN :
        /\ IOutcome(ok)
        /\ IF ok THEN qjsMaster' = TRUE /\ ipc' = "qjs_rename" /\ ifailed' = ifailed
           ELSE QjsCaught /\ qjsMaster' = qjsMaster
    /\ UNCHANGED <<ihost, qjsDir, qjsArchive, zigBin, zigArchive, zigSub>>

\* quickjs-master is renamed to quickjs, then the archive is deleted
QjsFinish ==
    /\ UNCHANGED <<vars, rvars>>
    /\ ipc = "qjs_rename"
    /\ \E ok \in BOOLEAN :
        /\ IOutcome(ok)
        /\ IF ok THEN /\ qjsDir' = (qjsDir \/ qjsMaster)
                      /\ qjsMaster' = FALSE
                      /\ qjsArchive' = FALSE
                      /\ ipc' = "zig_check"
                      /\ ifailed' = ifailed
           ELSE QjsCaught /\ UNCHANGED <<qjsDir, qjsMaster, qjsArchive>>
    /\ UNCHANGED <<ihost, zigBin, zigArchive, zigSub>>

ZigCheck ==
    /\ UNCHANGED <<vars, rvars>>
    /\ ipc = "zig_check"
    /\ ipc' = IF zigBin THEN "exit0" ELSE "zig_download"
    /\ UNCHANGED <<ihost, qjsDir, qjsArchive, qjsMaster, zigBin, zigArchive, zigSub,
                   ifaults, ifailed>>

ZigDownload ==
    /\ UNCHANGED <<vars, rvars>>
    /\ ipc = "zig_download"
    /\ \E ok \in BOOLEAN :
        /\ IOutcome(ok)
        /\ IF ok THEN zigArchive' = TRUE /\ ipc' = "zig_extract" /\ ifailed' = ifailed
           ELSE ZigCaught /\ zigArchive' = zigArchive
    /\ UNCHANGED <<ihost, qjsDir, qjsArchive, qjsMaster, zigBin, zigSub>>

\* Expand-Archive unpacks into a subfolder, tar --strip-components=1 in place
ZigExtract ==
    /\ UNCHANGED <<vars, rvars>>
    /\ ipc = "zig_extract"
    /\ \E ok \in BOOLEAN :
        /\ IOutcome(ok)
        /\ IF ok THEN /\ IF IsWindows THEN zigSub' = TRUE /\ zigBin' = zigBin
                         ELSE zigBin' = TRUE /\ zigSub' = zigSub
                      /\ ipc' = IF IsWindows THEN "zig_flatten" ELSE "zig_finish"
                      /\ ifailed' = ifailed
           ELSE ZigCaught /\ UNCHANGED <<zigBin, zigSub>>
    /\ UNCHANGED <<ihost, qjsDir, qjsArchive, qjsMaster, zigArchive>>

\* Windows: the content of the subfolder is moved up
ZigFlatten ==
    /\ UNCHANGED <<vars, rvars>>
    /\ ipc = "zig_flatten"
    /\ \E ok \in BOOLEAN :
        /\ IOutcome(ok)
        /\ IF ok THEN /\ zigBin' = (zigBin \/ zigSub)
                      /\ ipc' = "zig_finish"
                      /\ ifailed' = ifailed
           ELSE ZigCaught /\ zigBin' = zigBin
    /\ UNCHANGED <<ihost, qjsDir, qjsArchive, qjsMaster, zigArchive, zigSub>>

\* the archive is deleted and, off Windows, the binary made executable
ZigFinish ==
    /\ UNCHANGED <<vars, rvars>>
    /\ ipc = "zig_finish"
    /\ \E ok \in BOOLEAN :
        /\ IOutcome(ok)
        /\ IF ok THEN zigArchive' = FALSE /\ ipc' = "exit0" /\ ifailed' = ifailed
           ELSE ZigCaught /\ zigArchive' = zigArchive
    /\ UNCHANGED <<ihost, qjsDir, qjsArchive, qjsMaster, zigBin, zigSub>>

InitInstall == BuildOff /\ ResolverOff /\ InstallInit

NextInstall ==
    \/ CheckHost
    \/ QjsDownload
    \/ QjsExtract
    \/ QjsFinish
    \/ ZigCheck
    \/ ZigDownload
    \/ ZigExtract
    \/ ZigFlatten
    \/ ZigFinish

SpecInstall == InitInstall /\ [][NextInstall]_allVars

\* the status the install process ends with
InstallStatus == IF ipc = "exit1" THEN 1 ELSE 0

(***************************************************************************)
(* Properties of the build run.                                           *)
(***************************************************************************)
NoBackups == \A f \in VendorSet : bak[f] = NoFile

\* C1: at the end of every run, however it ends, the three vendor files equal
\* their contents before the run and no .bak file remains.
C1_VendorPristineAtEnd == pc \in Terminal => (vend = preRun /\ NoBackups)

OncePatched(f) == PatchedContent(f, Pristine[f], env.modules, env.execSrc)

\* C2: any number of patch applications to a pristine vendor file, with no
\* restore in between, leave it equal to the result of one application.
C2_PatchIdempotent == \A f \in VendorSet : applied[f] >= 1 => vend[f] = OncePatched(f)

\* the restore step has acted on vendor file number i of the current run
RestoreDone(i) ==
    \/ pc = "restore" /\ pf > i
    \/ pc \in {"unstub", "done"}
    \/ pc = "crashed" /\ failStage = "restore" /\ pf > i
    \/ pc = "crashed" /\ failStage = "unstub"

\* C3: after one or more patch applications followed by the restore step the
\* vendor file has the content it had before the first application, and its
\* backup is gone.
C3_RestoreCorrect ==
    \A i \in 1..Len(VendorFiles) :
        RestoreDone(i) => /\ vend[VendorFiles[i]] = Pristine[VendorFiles[i]]
                          /\ bak[VendorFiles[i]] = NoFile

\* quickjs-libc.c was patched in two runs (qjs.c is patched after it in each)
\* and has just been restored, while qjs.c still awaits its restore
C3_Witness ==
    /\ pc = "restore" /\ pf = 2
    /\ applied["qjs.c"] = 2
    /\ vend["qjs.c"] # Pristine["qjs.c"]
    /\ vend["quickjs-libc.c"] = Pristine["quickjs-libc.c"]
    /\ OncePatched("quickjs-libc.c") # Pristine["quickjs-libc.c"]

\* C4: a failure in any step of a target's pipeline abandons that target only:
\* every target is still attempted and the run goes on through the cleanup and
\* restore stages to its end.
C4_TargetFailureNonFatal ==
    (pc \in Terminal /\ failStage \in TargetStages) =>
        (pc = "done" /\ attempted = TargetIdx)

\* C5: no step of a target consumes a file that a step of another target
\* produced in the same run.
C5_TargetIndependence == \A p \in consumed : p[1] = p[2]

\* C6: with one native module in the manifest and a toolchain none of whose
\* invocations fails, a full run, whatever the tools directory held, leaves every target's application binary in the
\* distribution directory.
C6_EndToEnd ==
    (pc = "done" /\ Len(env.modules) = 1 /\ toolFault = {}) =>
        \A i \in TargetIdx : targets[i].app \in dist

\* C11: a run that meets a fatal setup error (no manifest, no toolchain
\* executable, or a vendor file that cannot be read or written while patching)
\* attempts no target and ends with a non-zero status.
C11_FatalSetupAborts ==
    (pc \in Terminal /\ (~env.manifest \/ ~env.zig \/ failStage = "patch")) =>
        (attempted = {} /\ ExitStatus # 0)

\* C12: when the patch stage fails, every backup made in the run has been
\* copied back over its vendor file and removed by the time the process ends.
C12_PatchFailureRestores ==
    (pc \in Terminal /\ failStage = "patch") =>
        \A f \in VendorSet :
            bakMade[f] > 0 => (bak[f] = NoFile /\ vend[f] = preRun[f])

\* C13: when deleting a temporary source or restoring one backup fails, the
\* other backups are still restored and the process ends with status zero.
C13_CleanupBestEffort ==
    (pc \in Terminal /\ failStage \in {"cleanup", "restore"}) =>
        /\ ExitStatus = 0
        /\ \A i \in 1..Len(VendorFiles) :
              (failStage = "restore" /\ i = pf) \/ bak[VendorFiles[i]] = NoFile

\* C15: no step of the target loop creates or overwrites the host pre-compiler
\* binary the pre-compile step invokes.
C15_HostQjscOutOfBand == hostQjsc \notin builtNow

\* C16: a target stage is entered only when all three vendor files have been
\* patched and written in this run; the link of a target starts only after its
\* two helper builds and its pre-compile have finished; the targets attempted
\* are always the first so many of the registry, none after the current one;
\* and the cleanup and restore stages start only when all have been attempted.
C16_StageOrdering ==
    /\ pc \in TargetStages =>
          (written = VendorSet /\ \A f \in VendorSet : applied[f] >= 1)
    /\ pc = "link" =>
          {<<ti, "qjs">>, <<ti, "qjsc">>, <<ti, "precompile">>} \subseteq finished
    /\ \E k \in 0..Len(targets) : attempted = 1..k
    /\ pc \in TargetStages => attempted = 1..(IF pc = "resolve" THEN ti - 1 ELSE ti)
    /\ \A p \in finished : p[1] \in attempted
    /\ (pc \in {"cleanup", "restore", "unstub", "done"}
           \/ (pc = "crashed" /\ failStage \in {"cleanup", "restore", "unstub"}))
          => attempted = TargetIdx

\* the last target is being linked in a run in which an earlier target failed
C16_Witness ==
    /\ pc = "link" /\ ti = Len(targets)
    /\ toolFault # {}
    /\ <<1, "link">> \in finished

\* C17: in a run each .bak file is created at most once; a .bak file that
\* exists is never given other content; and the only step after which an
\* existing .bak file is gone is the restore step.
C17_BackupInvariant ==
    [][\A f \in VendorSet :
          /\ bakMade'[f] <= 1
          /\ (bak[f] # NoFile /\ bak'[f] # bak[f]) =>
                (pc = "restore" /\ f = VendorFiles[pf] /\ bak'[f] = NoFile)]_allVars

\* a second run has passed the backup step of quickjs-libc.c, whose backup was
\* left by the first run while the file itself was left patched
C17_Witness ==
    /\ run = 2 /\ pc = "patch_write" /\ pf = 1
    /\ bakMade["quickjs-libc.c"] = 0
    /\ bak["quickjs-libc.c"] = Pristine["quickjs-libc.c"]
    /\ vend["quickjs-libc.c"] # Pristine["quickjs-libc.c"]

\* C18: a run with a manifest whose patch stage succeeded and in which nothing
\* failed but helper builds, pre-compiles and links, of whatever targets, prints
\* the completion banner and ends with status zero.
C18_ToolFailuresExitZero ==
    (/\ pc \in Terminal
     /\ env.manifest
     /\ written = VendorSet
     /\ failStage \in {"none", "qjs", "qjsc", "precompile", "link"}) =>
        (Banner /\ ExitStatus = 0)

\* a run ended in which a link failed and another target was built
C18_Witness ==
    /\ pc = "done"
    /\ failStage = "link"
    /\ toolFault # {}
    /\ \E i \in TargetIdx : <<i, "link">> \in finished

\* the stages between the patch stage and the restore step
AfterPatch == pc \in {"stub", "cleanup"} \cup TargetStages

ModuleNames == {env.modules[i] : i \in 1..Len(env.modules)}

\* C19: after the patch stage the declaration of js_init_module_<name> of
\* every registered module is in all three vendor files.
C19_DeclInAllThree ==
    AfterPatch =>
        \A name \in ModuleNames : \A f \in VendorSet : Includes(vend[f], Decl(name))

\* C19 (amended): after the patch stage the declaration of every registered
\* module is in quickjs-libc.c and in qjs.c; qjsc.c holds no declaration but
\* the namelist_add line that embeds the module.
C19_DeclInLibraryAndInterpreter ==
    AfterPatch =>
        \A name \in ModuleNames :
            /\ Includes(vend["quickjs-libc.c"], Decl(name))
            /\ Includes(vend["qjs.c"], Decl(name))
            /\ ~Includes(vend["qjsc.c"], Decl(name))
            /\ Includes(vend["qjsc.c"], Embed(name))

C19_Witness ==
    /\ pc = "stub"
    /\ ModuleNames # {}
    /\ written = VendorSet
    /\ \A name \in ModuleNames : Includes(vend["qjs.c"], Decl(name))

\* C21: when the resolution of a target's tree begins, build/<id> does not
\* exist, and from the removal of the build directory at the start of a run
\* on, every tree under build/ was resolved in that run.
C21_FreshTrees ==
    /\ pc = "resolve" => targets[ti].id \notin build
    /\ (pc \notin {"idle", "off"} /\ failStage # "clean") =>
          build = {targets[i].id : i \in {j \in TargetIdx : <<j, "resolve">> \in finished}}

\* a second run resolves its second target: the seven trees of the first run
\* are gone, the tree of the first target is there again
C21_Witness ==
    /\ run = 2
    /\ pc = "resolve" /\ ti = 2
    /\ build = {targets[1].id}
    /\ dist # {}

\* C24: once quickjs-libc.c is patched with the shim fragment, every function
\* its exec table entry names when _WIN32 is defined is one the fragment
\* defines, and when _WIN32 is not defined the entry names what the pristine
\* entry named.
C24_ExecEntryDefined ==
    (AfterPatch /\ env.execSrc) =>
        /\ NamedIn(ActiveLines(vend["quickjs-libc.c"], TRUE))
              \subseteq DefinedIn(ActiveLines(ExecImpl, TRUE))
        /\ NamedIn(ActiveLines(vend["quickjs-libc.c"], FALSE))
              = NamedIn(ActiveLines(Pristine["quickjs-libc.c"], FALSE))

\* C25: the host pre-compiler name the pre-compile step invokes is, on every
\* host, the qjsc name of some target of the registry.
C25_HostQjscInRegistry ==
    pc = "precompile" => hostQjsc \in {targets[i].qjsc : i \in TargetIdx}

(***************************************************************************)
(* Properties of the resolver.                                            *)
(***************************************************************************)
ScriptName(name) == Len(name) >= 2 /\ name[Len(name)] \in {"mjs", "js"}
MjsName(name) == Len(name) >= 2 /\ name[Len(name)] = "mjs"
HasFamilySuffix(name) == Len(name) >= 3 /\ name[Len(name) - 1] \in knownPlats
\* X.ext -> X.F.ext
SpecificSibling(path, family) ==
    Front(path) \o <<SubSeq(Last(path), 1, Len(Last(path)) - 1)
                       \o <<family, Last(path)[Len(Last(path))]>> >>
GenericMjs(path) == MjsName(Last(path)) /\ ~HasFamilySuffix(Last(path))
InTree(path) == path \in DOMAIN rtree

\* C7: no directory of the build tree resolved for family F holds both a generic
\* X.mjs and X.F.mjs; when the source directory holds both, the build tree holds
\* X.F.mjs under its own name, with its own text, and no X.mjs.
C7_GenericSpecificExclusive ==
    /\ \A p \in DOMAIN rtree :
          GenericMjs(p) => ~InTree(SpecificSibling(p, rplat))
    /\ rpc = "done" =>
          \A p \in rfiles :
              (GenericMjs(p) /\ SpecificSibling(p, rplat) \in rfiles) =>
                  /\ InTree(SpecificSibling(p, rplat))
                  /\ rtree[SpecificSibling(p, rplat)] = OwnText(SpecificSibling(p, rplat))
                  /\ ~InTree(p)

C7_Witness ==
    /\ rpc = "done"
    /\ rplat = "darwin"
    /\ << LibDir, <<"m", "mjs">> >> \in rfiles
    /\ << LibDir, <<"m", "darwin", "mjs">> >> \in rfiles
    /\ InTree(<< LibDir, <<"m", "darwin", "mjs">> >>)
    /\ ~InTree(<< LibDir, <<"m", "mjs">> >>)

\* C8: every script (.mjs or .js) without OS-family suffix and without a
\* specific sibling for the target family in its directory is in the build tree
\* under its own name.
C8_GenericKept ==
    rpc = "done" =>
        \A p \in rfiles :
            (ScriptName(Last(p)) /\ ~HasFamilySuffix(Last(p))
                /\ SpecificSibling(p, rplat) \notin rfiles) => InTree(p)

\* the import statements the rewrite is to retarget: those of the form
\* import ... from '<path>.mjs' whose <path>.<family>.mjs exists beside the script
Retargeted(st) ==
    /\ st.kind \in {"import", "import_multiline"}
    /\ st.ext = ".mjs"
    /\ (Front(rindex) \o st.spec.dirs) \o <<st.spec.base \o <<rplat, "mjs">>>> \in rfiles

Expected(st) == StmtText(st, IF Retargeted(st) THEN <<PlatTok(rplat)>> ELSE <<>>)

\* C9: in a surviving script every import ... from '<path>.mjs' is retargeted to
\* '<path>.<family>.mjs' exactly when that file exists relative to the script's
\* source directory, and nothing else in the text changes.
C9_ImportRewrite ==
    InTree(rindex) =>
        rtree[rindex] = Expected(rscript.first) \o SepText(rscript.sep) \o Expected(rscript.second)

\* C10: no script carrying the suffix of a known OS family other than the
\* target's is anywhere in the build tree.
C10_CrossFamilyExcluded ==
    \A p \in DOMAIN rtree :
        ~(ScriptName(Last(p)) /\ HasFamilySuffix(Last(p))
            /\ Last(p)[Len(Last(p)) - 1] # rplat)

C10_Witness ==
    /\ rpc = "done"
    /\ rplat = "linux"
    /\ << <<"m", "win32", "mjs">> >> \in rfiles
    /\ << LibDir, <<"m", "win32", "mjs">> >> \in rfiles
    /\ LibDir \in {Last(d) : d \in rmade \ {<<>>}}
    /\ InTree(rindex)

\* C14: resolving a build tree creates, changes and deletes nothing inside the
\* directory being resolved, wherever the entry point lies, the project root
\* included: that directory holds the directories and files it held before.
C14_SourceReadOnly ==
    /\ SrcDirsNow = BaseDirs
    /\ SrcFilesNow = rfiles

\* C22: after resolution the entry-point path handed to the pre-compiler names
\* a file of the build tree; when the entry point has a specific sibling for
\* the target family, that file has the text of the specific version.
C22_EntryPointResolved ==
    (rpc = "done" /\ EntryFile \in rfiles) =>
        /\ InTree(EntryFile)
        /\ SpecificSibling(EntryFile, rplat) \in rfiles =>
              rtree[EntryFile] = SrcText(SpecificSibling(EntryFile, rplat))

\* the file a module reference at position i of a text in directory dir names
RefAt(text, i, dir) ==
    LET sp == text[i].p
        hasPlat == text[i + 1].k = "plat"
        ext == text[IF hasPlat THEN i + 2 ELSE i + 1].k
    IN (dir \o sp.dirs) \o <<(sp.base \o (IF hasPlat THEN text[i + 1].p.base ELSE <<>>))
                                 \o <<IF ext = ".mjs" THEN "mjs" ELSE "js">> >>

\* the generic scripts dropped because a specific sibling exists
DroppedGeneric ==
    {q \in rfiles : /\ ScriptName(Last(q)) /\ ~HasFamilySuffix(Last(q))
                    /\ SpecificSibling(q, rplat) \in rfiles
                    /\ ~InTree(q)}

\* C23: after resolution no file of the build tree refers, by whatever kind of
\* import or export statement, to a generic script that was dropped because a
\* specific sibling exists.
C23_NoDanglingReference ==
    rpc = "done" =>
        \A p \in DOMAIN rtree : \A i \in 1..Len(rtree[p]) :
            rtree[p][i].k = "path" => RefAt(rtree[p], i, Front(p)) \notin DroppedGeneric

\* C26: resolution ends, and every call of processDirectory is on a directory
\* the source tree held when resolution began, so that there are no more calls
\* than the tree has directories.
C26_ResolutionTerminates ==
    /\ rpc # "crashed"
    /\ \A k \in 1..Len(rstack) : rstack[k].dir \in BaseDirs

(***************************************************************************)
(* Properties of the install step.                                         *)
(***************************************************************************)
\* C20: an install run in which the download or the unpacking of either
\* dependency, the QuickJS sources or the Zig toolchain, failed ends with a
\* non-zero status.
C20_AcquisitionFailureFatal ==
    (ipc \in {"exit0", "exit1"} /\ ifailed # {}) => InstallStatus # 0

====
